---- MODULE Spec2Model ----
(***************************************************************************)
(* Model of lib/node/index.ts: the HotwordModels registry and the          *)
(* SnowboyDetect dispatcher that wraps the native detection engine.        *)
(*                                                                         *)
(* Conventions.  A JavaScript call is modelled by an operator that returns *)
(* an outcome record; the field `threw` is NoThrow when the call returned  *)
(* and the name of the raised error otherwise.  The JavaScript value       *)
(* `undefined` is the string Undefined.  An "emitted" event is a call of   *)
(* this.emit(name, payload); whether that call itself throws (Node throws  *)
(* on an 'error' event that has no listener) is recorded separately.       *)
(*                                                                         *)
(* SnowboyDetect extends stream.Writable (line 87) and defines no _write,  *)
(* so the instance is also a Node stream and event emitter.  The model     *)
(* follows the stream of Node 20 with its default options (autoDestroy,    *)
(* emitClose, a high-water mark of 16384 bytes) as far as the calls below   *)
(* reach it.  Each callback the stream hands to process.nextTick is held   *)
(* in the stream record until a step Tick runs it.  The caller works with  *)
(* the instance it constructed last; an instance it replaced goes on under *)
(* the event loop for as long as a callback or a piped source reaches it.  *)
(***************************************************************************)
EXTENDS Integers, Sequences, FiniteSets, TLC

(* ------------------------------ bounds --------------------------------- *)
\* Largest number of models a registry receives.
MaxModels == 2
\* How far the engine results range below SILENCE and above the table.
Slack == 1
\* Largest number of nativeInstance.SetAudioGain calls recorded.
MaxGainCalls == 1
\* Largest number of listeners for 'error' registered with on(), and with once().
MaxListeners == 1
\* Largest number of source streams piped into an instance.
MaxSources == 1
\* Largest depth of cork() calls.
MaxCorks == 1
\* Largest number of chunks queued in a stream.
MaxBuffered == 1
\* Largest number of instances the event loop reaches at a time: the one the
\* caller holds and the live ones it replaced.
MaxInstances == 1

(* ------------------------------ inputs --------------------------------- *)
ExistingFiles == {"a.pmdl", "b.umdl"}
Files == ExistingFiles \cup {"missing.pmdl"}
Undefined == "undefined"
Sensitivities == {"0.5", Undefined}
NoThrow == "none"
NoPayload == "no payload"

\* HotwordModel.hotwords: string | Array<string>.  A single label, an empty
\* list and a list of two labels (the models A and B of the spec's scenario).
HotwordsInputs ==
  {[str |-> "alexa"], [arr |-> <<>>], [arr |-> <<"ok_google", "hey_google">>]}

\* The HotwordModel declarations a caller may pass to add().
ModelInputs == [file : Files, sensitivity : Sensitivities, hotwords : HotwordsInputs]

\* Declarations that differ in their labels and in whether the file exists only.
PlainModelInputs ==
  {m \in ModelInputs : m.file \in {"a.pmdl", "missing.pmdl"} /\ m.sensitivity = Undefined}

\* The declaration of the one-label model alone.
OneModelInputs == {m \in PlainModelInputs : m.file = "a.pmdl" /\ m.hotwords = [str |-> "alexa"]}

\* DetectorOptions.audioGain?: number.
AudioGains == {[given |-> FALSE, value |-> 0], [given |-> TRUE, value |-> 0], [given |-> TRUE, value |-> 2]}

\* Options that make no SetAudioGain call: no gain, or the gain 0.
QuietAudioGains == {g \in AudioGains : g.value = 0}

\* Options without a gain.
NoAudioGains == {g \in AudioGains : ~g.given}

\* The gains a caller passes to setAudioGain(gain).
GainValues == {0, 2}

\* The default highWaterMark of a stream.Writable, in bytes.
HighWaterMark == 16384

\* What a caller passes to write(chunk): null, or a Buffer, of one byte or of
\* as many as the high-water mark.
Chunks ==
  {[kind |-> "null", length |-> 0], [kind |-> "buffer", length |-> 1],
   [kind |-> "buffer", length |-> HighWaterMark]}

\* The chunks a source delivers.
Buffers == {chunk \in Chunks : chunk.kind = "buffer"}

\* What a caller passes to destroy(error): nothing, or an Error.
NoError == "no error"
DestroyErrors == {NoError, "boom"}

\* The kinds of listener for 'error' a caller can remove one of.
ListenerKinds == {"on", "once"}

\* The sources piped into an instance: those that deliver chunks and hold the
\* listeners pipe() registered on the instance, those that hold them and
\* deliver no more (ended, or paused for good by a refused write), those that
\* deliver after removeAllListeners('error') took their listener for 'error',
\* and those that deliver after removeAllListeners() took all their listeners.
SourceKinds == {"listening", "stopped", "deaf", "detached"}
DeliveringKinds == {"listening", "deaf", "detached"}

\* The instances the event loop may reach: 0 is the one the caller holds.
Instances == 0 .. (MaxInstances - 1)

\* The longest lookup table: no declared model carries more than two labels.
MaxTable == MaxModels + MaxModels
Indices == (0 - Slack) .. (MaxTable + Slack)

(* ----------------------------- DetectionResult ------------------------- *)
SILENCE == -2
ERROR == -1
NOISE == 0
EngineResults == (SILENCE - Slack) .. (MaxTable + Slack)
EngineCounts == 0 .. MaxTable

\* What the engine answers to the call a listener makes: one result for each
\* branch of processDetectionResult, and one on each side of the reserved codes.
NestedResults == {SILENCE - 1, SILENCE, ERROR, NOISE, NOISE + 1}

VARIABLES
  models,         \* HotwordModels.models: the added models, hotwords normalised
  lookupTable,    \* HotwordModels.lookupTable: [defined, items]; undefined until the first add
  detector,       \* the SnowboyDetect instance the caller holds, if any
  listeners,      \* its listeners for 'error': how many from on() and from once()
  sources,        \* the sources piped into it, counted by kind
  stream,         \* its stream.Writable state
  retired,        \* the live instances the caller replaced: [listeners, sources, stream]
  gainCalls,      \* the arguments of the nativeInstance.SetAudioGain calls made
  lastCall        \* the latest call of the API and its outcome

vars == <<models, lookupTable, detector, listeners, sources, stream, retired, gainCalls, lastCall>>

(* ----------------------------- HotwordModels --------------------------- *)
\* [].concat(x): a scalar becomes a one-element array, an array is copied.
Concat(h) == IF "str" \in DOMAIN h THEN <<h.str>> ELSE h.arr

\* fs.existsSync(file)
existsSync(file) == file \in ExistingFiles

\* reduce() with the accumulator appended to the model's labels.
RECURSIVE ReducePrepend(_, _)
ReducePrepend(ms, acc) ==
  IF ms = <<>> THEN acc ELSE ReducePrepend(Tail(ms), Head(ms).hotwords \o acc)

RECURSIVE Reduce(_, _)
\* models.reduce((hotwords, model) => hotwords.concat(model.hotwords), acc)
Reduce(ms, acc) ==
  IF ms = <<>> THEN acc ELSE Reduce(Tail(ms), acc \o Head(ms).hotwords)

generateHotwordsLookupTable(ms) == Reduce(ms, <<>>)

\* Array.prototype.join(): elements separated by ",", undefined as "".
RECURSIVE Join(_)
Join(s) ==
  IF s = <<>> THEN ""
  ELSE LET h == IF Head(s) = Undefined THEN "" ELSE Head(s)
       IN  IF Len(s) = 1 THEN h ELSE h \o "," \o Join(Tail(s))

modelString(ms) == Join([i \in 1 .. Len(ms) |-> ms[i].file])

sensitivityString(ms) == Join([i \in 1 .. Len(ms) |-> ms[i].sensitivity])

\* add() with the push moved above the existence check.
addPushFirst(ms, tbl, model) ==
  LET pushed == Append(ms, [model EXCEPT !.hotwords = Concat(model.hotwords)])
      rebuilt == [defined |-> TRUE, items |-> generateHotwordsLookupTable(pushed)]
  IN  [models |-> pushed, lookupTable |-> rebuilt,
       threw |-> IF existsSync(model.file) = FALSE THEN "Model does not exists." ELSE NoThrow]

\* The outcome of add(model): the registry after the call and what was raised.
add(ms, tbl, model) ==
  LET normalised == [model EXCEPT !.hotwords = Concat(model.hotwords)]
  IN  IF existsSync(model.file) = FALSE
      THEN [models |-> ms, lookupTable |-> tbl, threw |-> "Model does not exists."]
      ELSE LET pushed == Append(ms, normalised)
           IN  [models |-> pushed,
                lookupTable |-> [defined |-> TRUE, items |-> generateHotwordsLookupTable(pushed)],
                threw |-> NoThrow]

\* The outcome of lookup(index): `index < 0 || this.lookupTable.length` guards the read.
lookup(tbl, index) ==
  IF index < 0 THEN [threw |-> "Index out of bounds.", label |-> Undefined]
  ELSE IF ~tbl.defined THEN [threw |-> "TypeError", label |-> Undefined]
  ELSE IF Len(tbl.items) # 0 THEN [threw |-> "Index out of bounds.", label |-> Undefined]
  ELSE [threw |-> NoThrow,
        label |-> IF index + 1 \in DOMAIN tbl.items THEN tbl.items[index + 1] ELSE Undefined]

\* The outcome of numHotwords(): this.lookupTable.length.
numHotwords(tbl) ==
  IF ~tbl.defined THEN [threw |-> "TypeError", ret |-> 0]
  ELSE [threw |-> NoThrow, ret |-> Len(tbl.items)]

(* ----------------------------- SnowboyDetect --------------------------- *)
\* EventEmitter.emit(name, payload): the event handed to the listeners, and
\* what the call raises: Node throws when 'error' is emitted and no listener
\* handles it (errorHandled, see ErrorHandled below).
emit(name, payload, errorHandled) ==
  [event |-> [name |-> name, payload |-> payload],
   threw |-> IF name = "error" /\ ~errorHandled THEN "Unhandled error." ELSE NoThrow]

\* processDetectionResult() with the `break` of the NOISE case missing: the
\* switch falls through to the default case.
processDetectionResultFallThrough(tbl, index, errorHandled) ==
  IF index = ERROR
  THEN LET e == emit("error", NoPayload, errorHandled)
       IN  [emitted |-> <<e.event>>, lookups |-> 0, threw |-> e.threw]
  ELSE IF index = SILENCE
  THEN LET e == emit("silence", NoPayload, errorHandled)
       IN  [emitted |-> <<e.event>>, lookups |-> 0, threw |-> e.threw]
  ELSE LET first == IF index = NOISE THEN <<emit("noise", NoPayload, errorHandled).event>>
                    ELSE <<>>
           hotword == lookup(tbl, index)
       IN  IF hotword.threw # NoThrow
           THEN [emitted |-> first, lookups |-> 1, threw |-> hotword.threw]
           ELSE LET e == emit("hotword", hotword.label, errorHandled)
                IN  [emitted |-> Append(first, e.event), lookups |-> 1, threw |-> e.threw]

\* The outcome of processDetectionResult(index): the emit calls made, the
\* number of registry lookups made and what was raised.
processDetectionResult(tbl, index, errorHandled) ==
  IF index = ERROR
  THEN LET e == emit("error", NoPayload, errorHandled)
       IN  [emitted |-> <<e.event>>, lookups |-> 0, threw |-> e.threw]
  ELSE IF index = SILENCE
  THEN LET e == emit("silence", NoPayload, errorHandled)
       IN  [emitted |-> <<e.event>>, lookups |-> 0, threw |-> e.threw]
  ELSE IF index = NOISE
  THEN LET e == emit("noise", NoPayload, errorHandled)
       IN  [emitted |-> <<e.event>>, lookups |-> 0, threw |-> e.threw]
  ELSE LET hotword == lookup(tbl, index)
       IN  IF hotword.threw # NoThrow
           THEN [emitted |-> <<>>, lookups |-> 1, threw |-> hotword.threw]
           ELSE LET e == emit("hotword", hotword.label, errorHandled)
                IN  [emitted |-> <<e.event>>, lookups |-> 1, threw |-> e.threw]

Step(buffer, what) == [buffer |-> buffer, step |-> what]

\* Whether the emit call of processDetectionResult reached the listeners: the
\* lookup did not throw before it and emit did not throw in place of them.
ListenersRan(p) == p.emitted # <<>> /\ p.threw = NoThrow

\* The steps of one runDetection call on the n-th buffer of a call chain, in
\* the order of lines 111-113 and 148-167; `inner` is what the listeners of
\* the emitted event did and innerThrew what they raised.
runDetectionSteps(n, p, inner, innerThrew) ==
  <<Step(n, "RunDetection"), Step(n, "interpret")>>
    \o (IF p.emitted = <<>> THEN <<Step(n, "throw")>>
        ELSE IF ~ListenersRan(p) THEN <<Step(n, "emit:begin"), Step(n, "throw")>>
        ELSE <<Step(n, "emit:begin")>> \o inner
               \o (IF innerThrew # NoThrow THEN <<Step(n, "throw")>>
                   ELSE <<Step(n, "emit:end"), Step(n, "return")>>))

\* The outcome of runDetection(buffer) when the engine answers `index`.
runDetection(tbl, index, errorHandled) ==
  LET p == processDetectionResult(tbl, index, errorHandled)
  IN  [engineCalls |-> 1, emitted |-> p.emitted, lookups |-> p.lookups, threw |-> p.threw,
       ret |-> IF p.threw = NoThrow THEN index ELSE 0,
       steps |-> runDetectionSteps(1, p, <<>>, NoThrow)]

\* The outcome of runDetection(buffer) when a listener of 'silence', 'noise'
\* and 'hotword' calls runDetection on the same instance once, the engine
\* answering `index` to the outer call and `nested` to the listener's call.
\* emit runs its listeners synchronously and nothing in runDetection refuses
\* a call made while another is on the stack.
runDetectionFromListener(tbl, index, nested, errorHandled) ==
  LET p == processDetectionResult(tbl, index, errorHandled)
      reenters == ListenersRan(p) /\ p.emitted[1].name # "error"
      q == processDetectionResult(tbl, nested, errorHandled)
  IN  IF ~reenters THEN runDetection(tbl, index, errorHandled)
      ELSE [engineCalls |-> 2, emitted |-> p.emitted \o q.emitted,
            lookups |-> p.lookups + q.lookups, threw |-> q.threw,
            ret |-> IF q.threw = NoThrow THEN index ELSE 0,
            steps |-> runDetectionSteps(1, p, runDetectionSteps(2, q, <<>>, NoThrow), q.threw)]

(* ------------------ the inherited emitter and stream ------------------- *)
NoListeners == [on |-> 0, once |-> 0]
NoSources == [listening |-> 0, stopped |-> 0, deaf |-> 0, detached |-> 0]

\* The stream.Writable state of a new instance (super(), line 92): what the
\* calls below read of _writableState.  length is the number of bytes written
\* and not completed, buffered the lengths of the queued chunks, and deferred
\* the callbacks handed to process.nextTick, in their order: "finish" (the
\* 'finish' check of end()), "flush" (the queued chunks of a destroyed stream),
\* "close", or the error to emit before 'close'.
FreshStream ==
  [writing |-> FALSE, length |-> 0, buffered |-> <<>>, corked |-> 0, needDrain |-> FALSE,
   ending |-> FALSE, finished |-> FALSE, destroyed |-> FALSE, errored |-> FALSE,
   errorEmitted |-> FALSE, deferred |-> <<>>]

\* Whether a callback of the stream waits for the next tick.
Pending(s) == s.deferred # <<>>

\* The sum of a sequence of lengths.
RECURSIVE Sum(_)
Sum(lens) == IF lens = <<>> THEN 0 ELSE Head(lens) + Sum(Tail(lens))

\* The sources piped into an instance, and those of them that deliver.
Piped(src) == src.listening + src.stopped + src.deaf + src.detached
Delivering(src) == src.listening + src.deaf + src.detached

\* The sources after the listeners pipe() put on the instance for 'finish'
\* and 'close' ran: each unpipes its source.
Unpiped(src) == [NoSources EXCEPT !.detached = src.detached]

\* destroy(err) of the stream: once only; dropping the queued chunks, and
\* emitting the error and 'close', are left to the next tick.
destroy(s, err) ==
  IF s.destroyed THEN s
  ELSE [s EXCEPT !.destroyed = TRUE,
                 !.errored = err # NoError,
                 !.deferred = s.deferred
                                \o (IF s.buffered # <<>> THEN <<"flush">> ELSE <<>>)
                                \o <<IF err = NoError THEN "close" ELSE err>>]

\* Whether emit('error') returns: a listener of the caller takes the event,
\* or the listener of a pipe does, which, left alone, destroys the stream
\* unless the stream emitted its own error before.
ErrorHandled(l, src, s) ==
  \/ l.on + l.once > 0
  \/ src.listening + src.stopped > 0 /\ ~s.errorEmitted

\* emit('error', er) on the instance.  The listeners pipe() registered run
\* first: each unpipes its source and removes itself, and the last one, when
\* no other listener is left, destroys the stream, or emits the error again
\* when the stream has emitted one already.  The listeners of the caller run
\* next, those registered with once() being removed.  er is NoPayload for the
\* event of processDetectionResult and the error of the stream otherwise.
deliverError(l, src, s, er) ==
  LET piped == src.listening + src.stopped > 0
      users == l.on + l.once > 0
      unhandled == IF er = NoPayload THEN "Unhandled error." ELSE er
      unpiped == [src EXCEPT !.listening = 0, !.stopped = 0]
  IN  IF users
      THEN [listeners |-> [l EXCEPT !.once = 0], sources |-> unpiped, stream |-> s,
            threw |-> NoThrow]
      ELSE IF ~piped
      THEN [listeners |-> l, sources |-> src, stream |-> s, threw |-> unhandled]
      ELSE IF s.errorEmitted
      THEN [listeners |-> l, sources |-> unpiped, stream |-> s, threw |-> unhandled]
      ELSE [listeners |-> l, sources |-> unpiped,
            stream |-> destroy(s, IF er = NoPayload THEN NoError ELSE er),
            threw |-> NoThrow]

\* The listeners, sources and stream after the emit calls of one runDetection
\* call.
afterEmit(emitted, l, src, s) ==
  IF \E i \in DOMAIN emitted : emitted[i].name = "error"
  THEN deliverError(l, src, s, NoPayload)
  ELSE [listeners |-> l, sources |-> src, stream |-> s, threw |-> NoThrow]

\* The outcome of write(chunk), the stream.Writable entry point.  null is
\* refused with a TypeError.  A stream that end() was called on is destroyed
\* with 'write after end', emitted on a later tick; a destroyed stream drops
\* the chunk.  Otherwise the chunk counts towards the length of the stream.
\* It is queued when a write is in progress or the stream is corked, and the
\* stream then asks for 'drain' once the length reaches the high-water mark.
\* Else it is handed to _write: the class defines none, so the base class's
\* _write throws out of write(), before the stream gets to ask for 'drain',
\* and leaves the stream with a write that never completes.  refused is
\* write() returning false.  The engine is not called and nothing is emitted.
write(s, chunk) ==
  LET length == s.length + chunk.length
      full == length >= HighWaterMark
      t == [s EXCEPT !.length = length]
      made(after, threw, refused) ==
        [stream |-> after, threw |-> threw, refused |-> refused,
         engineCalls |-> 0, emitted |-> <<>>]
  IN  IF chunk.kind = "null" THEN made(s, "TypeError", FALSE)
      ELSE IF s.ending THEN made(destroy(s, "write after end"), NoThrow, TRUE)
      ELSE IF s.destroyed THEN made(s, NoThrow, TRUE)
      ELSE IF s.writing \/ s.corked > 0
      THEN made([t EXCEPT !.buffered = Append(s.buffered, chunk.length),
                          !.needDrain = s.needDrain \/ full], NoThrow, full)
      ELSE made([t EXCEPT !.writing = TRUE], "The _write() method is not implemented", FALSE)

\* clearBuffer(): the first queued chunk is handed to _write, which throws
\* before the queue is trimmed.
clearBuffer(s) ==
  IF s.corked > 0 \/ s.destroyed \/ s.buffered = <<>>
  THEN [stream |-> s, threw |-> NoThrow]
  ELSE [stream |-> [s EXCEPT !.writing = TRUE],
        threw |-> "The _write() method is not implemented"]

\* The outcome of cork().
cork(s) == [stream |-> [s EXCEPT !.corked = s.corked + 1], threw |-> NoThrow]

\* The outcome of uncork().
uncork(s) ==
  IF s.corked = 0 THEN [stream |-> s, threw |-> NoThrow]
  ELSE LET t == [s EXCEPT !.corked = s.corked - 1]
       IN  IF s.writing THEN [stream |-> t, threw |-> NoThrow] ELSE clearBuffer(t)

\* Whether a stream that is ending can emit 'finish'.
needFinish(s) ==
  /\ s.ending /\ ~s.destroyed /\ ~s.errored /\ ~s.finished /\ ~s.errorEmitted
  /\ ~s.writing /\ s.length = 0 /\ s.buffered = <<>>

\* The outcome of end(): a corked stream is uncorked all the way first, which
\* may throw; then the stream is marked as ending, once, and 'finish' is left
\* to the next tick when nothing is written or queued.
end(s) ==
  LET u == IF s.corked > 0 THEN uncork([s EXCEPT !.corked = 1])
           ELSE [stream |-> s, threw |-> NoThrow]
      e == [u.stream EXCEPT !.ending = TRUE]
  IN  IF u.threw # NoThrow THEN u
      ELSE IF u.stream.errored \/ u.stream.ending THEN u
      ELSE IF needFinish(e)
      THEN [stream |-> [e EXCEPT !.deferred = Append(e.deferred, "finish")], threw |-> NoThrow]
      ELSE [stream |-> e, threw |-> NoThrow]

\* One callback the stream deferred, the oldest.  "finish": the stream emits
\* 'finish' when it still can, on which the pipes unpipe, and destroys itself,
\* leaving its 'close' to a later tick.  "flush": the queued chunks of a
\* destroyed stream are dropped unless a write is in progress.  "close":
\* 'close' is emitted, on which the pipes unpipe.  An error: it is emitted,
\* and 'close' after it; an error nobody handles is thrown from the event
\* loop in place of 'close'.
tick(l, src, s) ==
  LET job == Head(s.deferred)
      t == [s EXCEPT !.deferred = Tail(s.deferred)]
      ran(l1, src1, s1, emitted, threw) ==
        [listeners |-> l1, sources |-> src1, stream |-> s1,
         emitted |-> emitted, threw |-> threw]
      Emitted(name) == [name |-> name, payload |-> NoPayload]
  IN  IF job = "finish"
      THEN IF needFinish(t)
           THEN ran(l, Unpiped(src), destroy([t EXCEPT !.finished = TRUE], NoError),
                    <<Emitted("finish")>>, NoThrow)
           ELSE ran(l, src, t, <<>>, NoThrow)
      ELSE IF job = "flush"
      THEN IF t.writing THEN ran(l, src, t, <<>>, NoThrow)
           ELSE ran(l, src, [t EXCEPT !.length = t.length - Sum(t.buffered),
                                      !.buffered = <<>>], <<>>, NoThrow)
      ELSE IF job = "close"
      THEN ran(l, Unpiped(src), t, <<Emitted("close")>>, NoThrow)
      ELSE LET d == deliverError(l, src, [t EXCEPT !.errorEmitted = TRUE], job)
               error == [name |-> "error", payload |-> job]
           IN  IF d.threw = NoThrow
               THEN ran(d.listeners, Unpiped(d.sources), d.stream,
                        <<error, Emitted("close")>>, NoThrow)
               ELSE ran(d.listeners, d.sources, d.stream, <<error>>, d.threw)

\* The outcome of setAudioGain(gain): the SetAudioGain calls it makes.
setAudioGain(gain) == [gainCalls |-> <<gain>>, threw |-> NoThrow]

\* The constructor without the comparison of the two hotword counts.
constructorNoCheck(tbl, engineCount, audioGain) ==
  IF audioGain.given /\ audioGain.value # 0
  THEN [threw |-> NoThrow, gainCalls |-> <<audioGain.value>>, engineCalls |-> 0, emitted |-> <<>>]
  ELSE [threw |-> NoThrow, gainCalls |-> <<>>, engineCalls |-> 0, emitted |-> <<>>]

\* The outcome of new SnowboyDetect(options) when the engine built from the
\* registry reports engineCount hotwords: what was raised, and the
\* SetAudioGain, RunDetection and emit calls made.
constructor(tbl, engineCount, audioGain) ==
  LET declared == numHotwords(tbl)
      made(threw, gains) ==
        [threw |-> threw, gainCalls |-> gains, engineCalls |-> 0, emitted |-> <<>>]
  IN  IF declared.threw # NoThrow THEN made(declared.threw, <<>>)
      ELSE IF engineCount # declared.ret
      THEN made("Loaded hotwords count does not match number of hotwords defined.", <<>>)
      ELSE IF audioGain.given /\ audioGain.value # 0 THEN made(NoThrow, <<audioGain.value>>)
      ELSE made(NoThrow, <<>>)

(* ------------------------------ the state machine ---------------------- *)
NoCall ==
  [op |-> "none", arg |-> 0, file |-> "", gain |-> [given |-> FALSE, value |-> 0],
   input |-> "", instance |-> 0, refused |-> FALSE, threw |-> NoThrow, ret |-> 0, label |-> Undefined,
   emitted |-> <<>>, lookups |-> 0, engineCalls |-> 0, steps |-> <<>>]

Init ==
  /\ models = <<>>
  /\ lookupTable = [defined |-> FALSE, items |-> <<>>]
  /\ detector = [constructed |-> FALSE, numHotwords |-> 0]
  /\ listeners = NoListeners
  /\ sources = NoSources
  /\ stream = FreshStream
  /\ retired = <<>>
  /\ gainCalls = <<>>
  /\ lastCall = NoCall

\* The emitter and stream of the instance the caller holds.
Held == [listeners |-> listeners, sources |-> sources, stream |-> stream]

\* Whether an instance acts without a call of the caller: a callback of its
\* stream waits for the next tick, or a source delivers into it.
Live(inst) == Pending(inst.stream) \/ Delivering(inst.sources) > 0

\* The instances the event loop reaches: 0 is the one the caller holds.
Instance(who) == IF who = 0 THEN Held ELSE retired[who]
Exists(who) == IF who = 0 THEN detector.constructed ELSE who <= Len(retired)

\* The instances replaced after the event loop acted on one of them, which is
\* kept for as long as it is live.
Retired(who, inst) ==
  IF who = 0 THEN retired
  ELSE IF Live(inst) THEN [retired EXCEPT ![who] = inst]
  ELSE SubSeq(retired, 1, who - 1) \o SubSeq(retired, who + 1, Len(retired))

\* The event loop leaves an instance as inst.
Becomes(who, inst) ==
  /\ listeners' = IF who = 0 THEN inst.listeners ELSE listeners
  /\ sources' = IF who = 0 THEN inst.sources ELSE sources
  /\ stream' = IF who = 0 THEN inst.stream ELSE stream
  /\ retired' = Retired(who, inst)

\* add() that also brings a constructed dispatcher's engine in line with the
\* regenerated table.
AddResync(model) ==
  /\ Len(models) < MaxModels
  /\ LET r == add(models, lookupTable, model)
     IN  /\ models' = r.models
         /\ lookupTable' = r.lookupTable
         /\ detector' = IF detector.constructed /\ r.threw = NoThrow
                        THEN [detector EXCEPT !.numHotwords = Len(r.lookupTable.items)]
                        ELSE detector
         /\ lastCall' = [NoCall EXCEPT !.op = "add", !.file = model.file, !.threw = r.threw]
  /\ UNCHANGED <<listeners, sources, stream, retired, gainCalls>>

\* models.add(model)
Add(model) ==
  /\ Len(models) < MaxModels
  /\ LET r == add(models, lookupTable, model)
     IN  /\ models' = r.models
         /\ lookupTable' = r.lookupTable
         /\ lastCall' = [NoCall EXCEPT !.op = "add", !.file = model.file, !.threw = r.threw]
  /\ UNCHANGED <<detector, listeners, sources, stream, retired, gainCalls>>

\* models.lookup(index), called by the application
Lookup(index) ==
  /\ LET r == lookup(lookupTable, index)
     IN  lastCall' = [NoCall EXCEPT !.op = "lookup", !.arg = index, !.threw = r.threw,
                                    !.label = r.label, !.lookups = 1]
  /\ UNCHANGED <<models, lookupTable, detector, listeners, sources, stream, retired, gainCalls>>

\* models.numHotwords(), called by the application
NumHotwords ==
  /\ LET r == numHotwords(lookupTable)
     IN  lastCall' = [NoCall EXCEPT !.op = "numHotwords", !.threw = r.threw, !.ret = r.ret]
  /\ UNCHANGED <<models, lookupTable, detector, listeners, sources, stream, retired, gainCalls>>

\* new SnowboyDetect({resource, models, audioGain}): on success the caller
\* holds the new instance, a fresh stream without listeners or sources, and
\* the instance it held before, when live, goes on under the event loop; when
\* the constructor throws the caller keeps what it held.
Construct(engineCount, audioGain) ==
  LET r == constructor(lookupTable, engineCount, audioGain)
      ok == r.threw = NoThrow
      replaced == IF ok /\ Live(Held) THEN Append(retired, Held) ELSE retired
  IN  /\ Len(gainCalls \o r.gainCalls) <= MaxGainCalls
      /\ 1 + Len(replaced) <= MaxInstances
      /\ detector' = IF ok THEN [constructed |-> TRUE, numHotwords |-> engineCount]
                     ELSE detector
      /\ listeners' = IF ok THEN NoListeners ELSE listeners
      /\ sources' = IF ok THEN NoSources ELSE sources
      /\ stream' = IF ok THEN FreshStream ELSE stream
      /\ retired' = replaced
      /\ gainCalls' = gainCalls \o r.gainCalls
      /\ lastCall' = [NoCall EXCEPT !.op = "construct", !.arg = engineCount,
                                    !.gain = audioGain, !.threw = r.threw,
                                    !.engineCalls = r.engineCalls, !.emitted = r.emitted]
      /\ UNCHANGED <<models, lookupTable>>

\* detector.setAudioGain(gain)
SetAudioGain(gain) ==
  /\ detector.constructed
  /\ Len(gainCalls) < MaxGainCalls
  /\ LET r == setAudioGain(gain)
     IN  /\ gainCalls' = gainCalls \o r.gainCalls
         /\ lastCall' = [NoCall EXCEPT !.op = "setAudioGain", !.arg = gain, !.threw = r.threw]
  /\ UNCHANGED <<models, lookupTable, detector, listeners, sources, stream, retired>>

\* detector.on('error', listener)
OnError ==
  /\ detector.constructed
  /\ listeners.on < MaxListeners
  /\ listeners' = [listeners EXCEPT !.on = listeners.on + 1]
  /\ lastCall' = [NoCall EXCEPT !.op = "on"]
  /\ UNCHANGED <<models, lookupTable, detector, sources, stream, retired, gainCalls>>

\* detector.once('error', listener)
OnceError ==
  /\ detector.constructed
  /\ listeners.once < MaxListeners
  /\ listeners' = [listeners EXCEPT !.once = listeners.once + 1]
  /\ lastCall' = [NoCall EXCEPT !.op = "once"]
  /\ UNCHANGED <<models, lookupTable, detector, sources, stream, retired, gainCalls>>

\* detector.removeListener('error', listener) / off, for a listener of the
\* caller that is registered, of the given kind
RemoveListener(kind) ==
  /\ detector.constructed
  /\ listeners[kind] > 0
  /\ listeners' = [listeners EXCEPT ![kind] = listeners[kind] - 1]
  /\ lastCall' = [NoCall EXCEPT !.op = "removeListener", !.input = kind]
  /\ UNCHANGED <<models, lookupTable, detector, sources, stream, retired, gainCalls>>

\* detector.removeAllListeners('error'): the listeners of the caller and
\* those pipe() registered for 'error' go; the sources stay piped.
RemoveErrorListeners ==
  /\ detector.constructed
  /\ listeners' = NoListeners
  /\ sources' = [sources EXCEPT !.listening = 0, !.stopped = 0,
                                !.deaf = sources.deaf + sources.listening]
  /\ lastCall' = [NoCall EXCEPT !.op = "removeAllListeners", !.input = "error"]
  /\ UNCHANGED <<models, lookupTable, detector, stream, retired, gainCalls>>

\* detector.removeAllListeners(): the listeners for every event go, those
\* pipe() registered for 'error', 'finish', 'close' and 'unpipe' included;
\* the sources that deliver go on delivering, with nothing left to unpipe them
\* when the stream finishes or closes.
RemoveAllListeners ==
  /\ detector.constructed
  /\ listeners' = NoListeners
  /\ sources' = [NoSources EXCEPT !.detached = Delivering(sources)]
  /\ lastCall' = [NoCall EXCEPT !.op = "removeAllListeners", !.input = Undefined]
  /\ UNCHANGED <<models, lookupTable, detector, stream, retired, gainCalls>>

\* detector.runDetection(buffer), the engine answering `index`
RunDetection(index) ==
  /\ detector.constructed
  /\ \E r \in {runDetection(lookupTable, index, ErrorHandled(listeners, sources, stream))} :
     \E e \in {afterEmit(r.emitted, listeners, sources, stream)} :
         /\ listeners' = e.listeners
         /\ sources' = e.sources
         /\ stream' = e.stream
         /\ lastCall' = [NoCall EXCEPT !.op = "runDetection", !.arg = index, !.threw = r.threw,
                                       !.ret = r.ret, !.emitted = r.emitted,
                                       !.lookups = r.lookups, !.engineCalls = r.engineCalls,
                                       !.steps = r.steps]
  /\ UNCHANGED <<models, lookupTable, detector, retired, gainCalls>>

\* detector.runDetection(buffer) while a listener that calls runDetection
\* again is registered for the event the call emits
RunDetectionFromListener(index, nested) ==
  /\ detector.constructed
  /\ \E r \in {runDetectionFromListener(lookupTable, index, nested,
                                         ErrorHandled(listeners, sources, stream))} :
     \E e \in {afterEmit(r.emitted, listeners, sources, stream)} :
         /\ r.engineCalls = 2
         /\ listeners' = e.listeners
         /\ sources' = e.sources
         /\ stream' = e.stream
         /\ lastCall' = [NoCall EXCEPT !.op = "runDetectionFromListener", !.arg = index,
                                       !.threw = r.threw, !.ret = r.ret,
                                       !.emitted = r.emitted, !.lookups = r.lookups,
                                       !.engineCalls = r.engineCalls, !.steps = r.steps]
  /\ UNCHANGED <<models, lookupTable, detector, retired, gainCalls>>

\* detector.write(chunk)
Write(chunk) ==
  /\ detector.constructed
  /\ LET r == write(stream, chunk)
     IN  /\ Len(r.stream.buffered) <= MaxBuffered
         /\ stream' = r.stream
         /\ lastCall' = [NoCall EXCEPT !.op = "write", !.input = chunk.kind,
                                       !.arg = chunk.length, !.threw = r.threw,
                                       !.refused = r.refused,
                                       !.emitted = r.emitted, !.engineCalls = r.engineCalls]
  /\ UNCHANGED <<models, lookupTable, detector, listeners, sources, retired, gainCalls>>

\* detector.end()
End ==
  /\ detector.constructed
  /\ LET r == end(stream)
     IN  /\ stream' = r.stream
         /\ lastCall' = [NoCall EXCEPT !.op = "end", !.threw = r.threw]
  /\ UNCHANGED <<models, lookupTable, detector, listeners, sources, retired, gainCalls>>

\* detector.cork()
Cork ==
  /\ detector.constructed
  /\ stream.corked < MaxCorks
  /\ LET r == cork(stream)
     IN  /\ stream' = r.stream
         /\ lastCall' = [NoCall EXCEPT !.op = "cork", !.threw = r.threw]
  /\ UNCHANGED <<models, lookupTable, detector, listeners, sources, retired, gainCalls>>

\* detector.uncork()
Uncork ==
  /\ detector.constructed
  /\ LET r == uncork(stream)
     IN  /\ stream' = r.stream
         /\ lastCall' = [NoCall EXCEPT !.op = "uncork", !.threw = r.threw]
  /\ UNCHANGED <<models, lookupTable, detector, listeners, sources, retired, gainCalls>>

\* detector.destroy(error)
Destroy(error) ==
  /\ detector.constructed
  /\ stream' = destroy(stream, error)
  /\ lastCall' = [NoCall EXCEPT !.op = "destroy", !.input = error]
  /\ UNCHANGED <<models, lookupTable, detector, listeners, sources, retired, gainCalls>>

\* source.pipe(detector), for a source not piped into it yet: pipe() puts its
\* listeners on the instance and the source starts to deliver, unless the
\* stream asks for 'drain', which leaves the source paused.
Pipe ==
  /\ detector.constructed
  /\ Piped(sources) < MaxSources
  /\ sources' = IF ~stream.destroyed /\ ~stream.ending /\ stream.needDrain
                THEN [sources EXCEPT !.stopped = sources.stopped + 1]
                ELSE [sources EXCEPT !.listening = sources.listening + 1]
  /\ lastCall' = [NoCall EXCEPT !.op = "pipe"]
  /\ UNCHANGED <<models, lookupTable, detector, listeners, stream, retired, gainCalls>>

\* source.unpipe(detector), for a piped source of the given kind
Unpipe(kind) ==
  /\ detector.constructed
  /\ sources[kind] > 0
  /\ sources' = [sources EXCEPT ![kind] = sources[kind] - 1]
  /\ lastCall' = [NoCall EXCEPT !.op = "unpipe", !.input = kind]
  /\ UNCHANGED <<models, lookupTable, detector, listeners, stream, retired, gainCalls>>

\* The sources after one of the given kind stopped delivering.
Stopped(src, kind) ==
  IF kind = "listening"
  THEN [src EXCEPT !.listening = src.listening - 1, !.stopped = src.stopped + 1]
  ELSE [src EXCEPT ![kind] = src[kind] - 1]

\* A piped source has a chunk: its 'data' listener calls write(chunk) on the
\* instance from the event loop, where what write() throws is caught by
\* nobody, and pauses the source when the write is refused.
SourceData(who, kind, chunk) ==
  /\ Exists(who)
  /\ Instance(who).sources[kind] > 0
  /\ LET inst == Instance(who)
         r == write(inst.stream, chunk)
     IN  /\ Len(r.stream.buffered) <= MaxBuffered
         /\ Becomes(who, [listeners |-> inst.listeners, stream |-> r.stream,
                          sources |-> IF r.refused THEN Stopped(inst.sources, kind)
                                      ELSE inst.sources])
         /\ lastCall' = [NoCall EXCEPT !.op = "sourceData", !.input = kind, !.instance = who,
                                       !.arg = chunk.length, !.threw = r.threw,
                                       !.refused = r.refused,
                                       !.emitted = r.emitted, !.engineCalls = r.engineCalls]
  /\ UNCHANGED <<models, lookupTable, detector, gainCalls>>

\* A piped source ends: its 'end' listener calls end() on the instance from
\* the event loop.
SourceEnd(who, kind) ==
  /\ Exists(who)
  /\ Instance(who).sources[kind] > 0
  /\ LET inst == Instance(who)
         r == end(inst.stream)
     IN  /\ Becomes(who, [listeners |-> inst.listeners, stream |-> r.stream,
                          sources |-> Stopped(inst.sources, kind)])
         /\ lastCall' = [NoCall EXCEPT !.op = "sourceEnd", !.input = kind, !.instance = who,
                                       !.threw = r.threw]
  /\ UNCHANGED <<models, lookupTable, detector, gainCalls>>

\* The event loop runs the oldest callback the stream of an instance left to
\* process.nextTick.
Tick(who) ==
  /\ Exists(who)
  /\ Pending(Instance(who).stream)
  /\ LET inst == Instance(who)
         r == tick(inst.listeners, inst.sources, inst.stream)
     IN  /\ Becomes(who, [listeners |-> r.listeners, sources |-> r.sources,
                          stream |-> r.stream])
         /\ lastCall' = [NoCall EXCEPT !.op = "tick", !.instance = who, !.threw = r.threw,
                                       !.emitted = r.emitted]
  /\ UNCHANGED <<models, lookupTable, detector, gainCalls>>

Next ==
  \/ \E model \in ModelInputs : Add(model)
  \/ \E index \in Indices : Lookup(index)
  \/ NumHotwords
  \/ \E engineCount \in EngineCounts, audioGain \in AudioGains : Construct(engineCount, audioGain)
  \/ \E gain \in GainValues : SetAudioGain(gain)
  \/ OnError
  \/ OnceError
  \/ \E kind \in ListenerKinds : RemoveListener(kind)
  \/ RemoveErrorListeners
  \/ RemoveAllListeners
  \/ \E index \in EngineResults : RunDetection(index)
  \/ \E index \in EngineResults, nested \in NestedResults : RunDetectionFromListener(index, nested)
  \/ \E chunk \in Chunks : Write(chunk)
  \/ End
  \/ Cork
  \/ Uncork
  \/ \E error \in DestroyErrors : Destroy(error)
  \/ Pipe
  \/ \E kind \in SourceKinds : Unpipe(kind)
  \/ \E who \in Instances, kind \in DeliveringKinds, chunk \in Buffers :
        SourceData(who, kind, chunk)
  \/ \E who \in Instances, kind \in DeliveringKinds : SourceEnd(who, kind)
  \/ \E who \in Instances : Tick(who)

Spec == Init /\ [][Next]_vars

\* The registry alone: the application adds models and queries the registry.
NextRegistry ==
  \/ \E model \in ModelInputs : Add(model)
  \/ \E index \in Indices : Lookup(index)
  \/ NumHotwords

SpecRegistry == Init /\ [][NextRegistry]_vars

\* Detection over registries built from the plain declarations: instances
\* constructed from the quiet options, the caller's listeners for 'error'
\* and runDetection calls.
NextDetect ==
  \/ \E model \in PlainModelInputs : Add(model)
  \/ \E engineCount \in EngineCounts, audioGain \in QuietAudioGains :
        Construct(engineCount, audioGain)
  \/ OnError
  \/ OnceError
  \/ \E kind \in ListenerKinds : RemoveListener(kind)
  \/ RemoveErrorListeners
  \/ RemoveAllListeners
  \/ \E index \in EngineResults : RunDetection(index)
  \/ \E index \in EngineResults, nested \in NestedResults : RunDetectionFromListener(index, nested)

SpecDetect == Init /\ [][NextDetect]_vars

\* Instances over registries built from the plain declarations: construction
\* and the audio gain.
NextInstance ==
  \/ \E model \in PlainModelInputs : Add(model)
  \/ \E engineCount \in EngineCounts, audioGain \in AudioGains : Construct(engineCount, audioGain)
  \/ \E gain \in GainValues : SetAudioGain(gain)

SpecInstance == Init /\ [][NextInstance]_vars

\* The instance as a stream and event emitter, over registries of the
\* one-label model and options without a gain: listeners, pipes, the writable
\* interface, the event loop, and runDetection calls the engine answers with
\* SILENCE or ERROR.
NextStream ==
  \/ \E model \in OneModelInputs : Add(model)
  \/ \E engineCount \in EngineCounts, audioGain \in NoAudioGains :
        Construct(engineCount, audioGain)
  \/ OnError
  \/ OnceError
  \/ \E kind \in ListenerKinds : RemoveListener(kind)
  \/ RemoveErrorListeners
  \/ RemoveAllListeners
  \/ \E index \in {SILENCE, ERROR} : RunDetection(index)
  \/ \E chunk \in Chunks : Write(chunk)
  \/ End
  \/ Cork
  \/ Uncork
  \/ \E error \in DestroyErrors : Destroy(error)
  \/ Pipe
  \/ \E kind \in SourceKinds : Unpipe(kind)
  \/ \E who \in Instances, kind \in DeliveringKinds, chunk \in Buffers :
        SourceData(who, kind, chunk)
  \/ \E who \in Instances, kind \in DeliveringKinds : SourceEnd(who, kind)
  \/ \E who \in Instances : Tick(who)

SpecStream == Init /\ [][NextStream]_vars

(* ------------------------------ properties ----------------------------- *)
Event(name, payload) == [name |-> name, payload |-> payload]

\* The label lists of the models, concatenated in insertion order.
RECURSIVE Flattened(_)
Flattened(ms) ==
  IF ms = <<>> THEN <<>> ELSE Flattened(SubSeq(ms, 1, Len(ms) - 1)) \o ms[Len(ms)].hotwords

\* The sum of the label counts of the models.
RECURSIVE LabelCount(_)
LabelCount(ms) == IF ms = <<>> THEN 0 ELSE Len(Head(ms).hotwords) + LabelCount(Tail(ms))

RanDetection(index) == lastCall.op = "runDetection" /\ lastCall.arg = index

\* C1: an engine result k > 0 with k-1 a valid index of the lookup table makes
\* runDetection emit 'hotword' with the label at 0-based position k-1, without
\* raising.
C1_HotwordForValidIndex ==
  \A k \in 1 .. MaxTable :
    (RanDetection(k) /\ lookupTable.defined /\ k - 1 < Len(lookupTable.items))
      => /\ lastCall.threw = NoThrow
         /\ lastCall.emitted = <<Event("hotword", lookupTable.items[(k - 1) + 1])>>

\* C2: after successful adds, lookup(i) for 0 <= i < numHotwords() returns,
\* without raising, the i-th element of the concatenated label lists.
C2_LookupReturnsLabel ==
  (lastCall.op = "lookup" /\ lastCall.arg >= 0 /\ lastCall.arg < LabelCount(models))
    => /\ lastCall.threw = NoThrow
       /\ lastCall.label = Flattened(models)[lastCall.arg + 1]

\* C3: an engine result of -1, -2 or 0 makes runDetection emit exactly
\* 'error', 'silence' or 'noise', with no payload, no 'hotword' event and no
\* registry lookup.
C3_ReservedCodes ==
  /\ RanDetection(-1) => lastCall.emitted = <<Event("error", NoPayload)>> /\ lastCall.lookups = 0
  /\ RanDetection(-2) => lastCall.emitted = <<Event("silence", NoPayload)>> /\ lastCall.lookups = 0
  /\ RanDetection(0) => lastCall.emitted = <<Event("noise", NoPayload)>> /\ lastCall.lookups = 0

C3_Witness ==
  /\ RanDetection(0)
  /\ lookupTable.items # <<>>
  /\ lastCall.emitted = <<Event("noise", NoPayload)>>

\* C4: every runDetection call emits exactly one event, so the number of
\* events emitted equals the number of buffers processed.
C4_OneEventPerBuffer ==
  lastCall.op \in {"runDetection", "runDetectionFromListener"}
    => /\ lastCall.engineCalls >= 1
       /\ Len(lastCall.emitted) = lastCall.engineCalls

\* C5: an engine result the registry cannot resolve (k > 0 with k-1 beyond the
\* table, or a negative value other than -1 and -2) makes runDetection raise an
\* index-out-of-bounds error and emit no 'hotword' event.
C5_UnresolvableRaises ==
  \A k \in EngineResults :
    (/\ RanDetection(k)
     /\ lookupTable.defined
     /\ \/ k > 0 /\ k - 1 >= Len(lookupTable.items)
        \/ k < 0 /\ k \notin {-1, -2})
      => lastCall.threw = "Index out of bounds." /\ lastCall.emitted = <<>>

\* C6: add of a model whose file does not exist raises and leaves the model
\* list, the lookup table, numHotwords(), modelString and sensitivityString
\* as they were.
C6_FailedAddChangesNothing ==
  [][(lastCall'.op = "add" /\ ~existsSync(lastCall'.file))
       => /\ lastCall'.threw # NoThrow
          /\ models' = models
          /\ lookupTable' = lookupTable
          /\ numHotwords(lookupTable') = numHotwords(lookupTable)
          /\ modelString(models') = modelString(models)
          /\ sensitivityString(models') = sensitivityString(models)]_vars

C6_Witness ==
  /\ lastCall.op = "add"
  /\ lastCall.file = "missing.pmdl"
  /\ lastCall.threw = "Model does not exists."
  /\ Len(models) = 1
  /\ lookupTable.items # <<>>

\* C7: in every state of the registry, the fresh one included, numHotwords()
\* returns the lookup table length, which is the sum of the label counts of
\* the models (0 for the empty registry).
C7_CountAlwaysDefined ==
  /\ numHotwords(lookupTable) = [threw |-> NoThrow, ret |-> LabelCount(models)]
  /\ Len(lookupTable.items) = LabelCount(models)

\* C8: constructing a SnowboyDetect whose engine reports another hotword count
\* than the registry raises in the constructor: no instance is returned (the
\* caller holds what it held before), and the attempt makes no RunDetection
\* call, no SetAudioGain call and emits nothing.
C8_MismatchFailsConstruction ==
  [][\A n \in EngineCounts :
       (/\ lastCall'.op = "construct"
        /\ lastCall'.arg = n
        /\ numHotwords(lookupTable).threw = NoThrow
        /\ n # numHotwords(lookupTable).ret)
         => /\ lastCall'.threw # NoThrow
            /\ detector' = detector
            /\ listeners' = listeners
            /\ sources' = sources
            /\ stream' = stream
            /\ retired' = retired
            /\ gainCalls' = gainCalls
            /\ lastCall'.engineCalls = 0
            /\ lastCall'.emitted = <<>>]_vars

C8_Witness ==
  /\ lastCall.op = "construct"
  /\ lookupTable.defined
  /\ lastCall.arg # Len(lookupTable.items)
  /\ lastCall.gain.given
  /\ lastCall.threw = "Loaded hotwords count does not match number of hotwords defined."
  /\ gainCalls = <<>>

\* C9: an engine result of -1 is surfaced as an 'error' event and not thrown,
\* whichever listeners the caller registered.
C9_EngineErrorNotThrown ==
  RanDetection(-1)
    => lastCall.threw = NoThrow /\ lastCall.emitted = <<Event("error", NoPayload)>>

\* C10: after successful adds, lookup(index) raises an index-out-of-bounds
\* error when index < 0 or index >= the table length, and never returns an
\* undefined label.
C10_LookupOutOfBoundsRaises ==
  (/\ lastCall.op = "lookup"
   /\ lookupTable.defined
   /\ (lastCall.arg < 0 \/ lastCall.arg >= Len(lookupTable.items)))
    => lastCall.threw = "Index out of bounds." /\ lastCall.label = Undefined

\* C11: every chunk pushed through the writable-sink interface (write, pipe)
\* causes exactly one engine RunDetection call on it, followed by exactly one
\* classified event.
C11_WriteRunsDetection ==
  (lastCall.op \in {"write", "sourceData"} /\ lastCall.input # "null")
    => /\ lastCall.engineCalls = 1
       /\ Len(lastCall.emitted) = 1
       /\ lastCall.threw = NoThrow

\* C12: each runDetection(buffer) call performs, in this order, one engine
\* RunDetection call, the interpretation of the result and the event emission,
\* and then returns the raw integer of the engine, for reserved codes and
\* hotword indices alike.
C12_CallOrderAndReturn ==
  \A k \in EngineResults :
    (/\ RanDetection(k)
     /\ \/ k \in {SILENCE, ERROR, NOISE}
        \/ k > 0 /\ k - 1 < Len(lookupTable.items))
      => /\ lastCall.steps = <<Step(1, "RunDetection"), Step(1, "interpret"),
                               Step(1, "emit:begin"), Step(1, "emit:end"), Step(1, "return")>>
         /\ lastCall.engineCalls = 1
         /\ lastCall.threw = NoThrow
         /\ lastCall.ret = k

\* C13: the engine's RunDetection for the next buffer never starts before
\* the event emission for the buffer before it has completed, also when a
\* listener invoked during that emission calls runDetection on the instance.
C13_NoBufferWhileBusy ==
  \A i \in DOMAIN lastCall.steps, j \in DOMAIN lastCall.steps :
    (/\ i < j
     /\ lastCall.steps[i].step = "emit:begin"
     /\ lastCall.steps[j].step = "RunDetection"
     /\ lastCall.steps[j].buffer # lastCall.steps[i].buffer)
      => \E k \in (i + 1) .. (j - 1) :
           /\ lastCall.steps[k].buffer = lastCall.steps[i].buffer
           /\ lastCall.steps[k].step \in {"emit:end", "throw"}

\* C14: when the options carry an audio gain (any number, 0 included) the
\* constructor calls SetAudioGain with it exactly once, after the count check
\* passed and before any RunDetection call; without a gain, or when the count
\* check fails, it never calls SetAudioGain.
C14_AudioGainApplied ==
  [][lastCall'.op = "construct"
       => /\ lastCall'.engineCalls = 0
          /\ gainCalls' = gainCalls \o (IF lastCall'.threw = NoThrow /\ lastCall'.gain.given
                                         THEN <<lastCall'.gain.value>>
                                         ELSE <<>>)]_vars

\* The entries of a comma-separated string, as a reader of the string sees them.
RECURSIVE SplitFrom(_, _, _)
SplitFrom(str, i, entry) ==
  IF i > Len(str) THEN <<entry>>
  ELSE IF SubSeq(str, i, i) = "," THEN <<entry>> \o SplitFrom(str, i + 1, "")
  ELSE SplitFrom(str, i + 1, entry \o SubSeq(str, i, i))

Split(str) == SplitFrom(str, 1, "")

\* The position in the lookup table after the labels of the models before the j-th.
Offset(ms, j) == LabelCount(SubSeq(ms, 1, j - 1))

\* C15: after successful adds, modelString lists one file path per model in
\* insertion order, sensitivityString has one entry per model in that order
\* (empty for a model without sensitivity), and the labels of the j-th model
\* are one contiguous block of the lookup table, after the labels of all
\* models before it.
C15_StringsAndTableAgree ==
  IF models = <<>>
  THEN modelString(models) = "" /\ sensitivityString(models) = ""
  ELSE /\ Split(modelString(models)) = [j \in 1 .. Len(models) |-> models[j].file]
       /\ Split(sensitivityString(models)) =
            [j \in 1 .. Len(models) |->
               IF models[j].sensitivity = Undefined THEN "" ELSE models[j].sensitivity]
       /\ lookupTable.defined
       /\ Len(lookupTable.items) = LabelCount(models)
       /\ \A j \in 1 .. Len(models) :
            SubSeq(lookupTable.items, Offset(models, j) + 1,
                   Offset(models, j) + Len(models[j].hotwords)) = models[j].hotwords

C15_Witness ==
  /\ Len(models) = 2
  /\ models[1].file = "b.umdl" /\ models[2].file = "a.pmdl"
  /\ models[1].sensitivity = Undefined /\ models[2].sensitivity = "0.5"
  /\ models[1].hotwords = <<"ok_google", "hey_google">>
  /\ models[2].hotwords = <<"alexa">>
  /\ lookupTable.items = <<"ok_google", "hey_google", "alexa">>
  /\ modelString(models) = "b.umdl,a.pmdl"
  /\ sensitivityString(models) = ",0.5"

CountMismatch == "Loaded hotwords count does not match number of hotwords defined."

\* C16: a successful add made after a SnowboyDetect was constructed from the
\* registry leaves the engine as it is (the count the dispatcher reports
\* included), and no later runDetection call repeats the count comparison, so
\* the two counts may differ from then on.
C16_AddDoesNotReconfigure ==
  [][/\ (detector.constructed /\ lastCall'.op = "add" /\ lastCall'.threw = NoThrow)
          => detector' = detector /\ gainCalls' = gainCalls /\ stream' = stream
     /\ lastCall'.op \in {"runDetection", "runDetectionFromListener"}
          => lastCall'.threw # CountMismatch /\ detector' = detector]_vars

C16_Witness ==
  /\ detector.constructed
  /\ lastCall.op = "runDetection"
  /\ lastCall.threw = NoThrow
  /\ Len(models) = 2
  /\ detector.numHotwords # Len(lookupTable.items)

TypeOK ==
  /\ Len(models) <= MaxModels
  /\ lookupTable.defined \in BOOLEAN
  /\ listeners.on \in 0 .. MaxListeners /\ listeners.once \in 0 .. MaxListeners
  /\ \A kind \in SourceKinds : sources[kind] \in 0 .. MaxSources
  /\ Piped(sources) <= MaxSources
  /\ stream.corked \in 0 .. MaxCorks
  /\ Len(stream.buffered) <= MaxBuffered
  /\ stream.length >= Sum(stream.buffered)
  /\ stream.needDrain => stream.length >= HighWaterMark \/ stream.destroyed
  /\ stream.errorEmitted => stream.destroyed
  /\ stream.errored => stream.destroyed
  /\ stream.finished => stream.destroyed
  /\ Pending(stream) => stream.ending \/ stream.destroyed
  /\ 1 + Len(retired) <= MaxInstances
  /\ \A who \in DOMAIN retired : Live(retired[who])
  /\ Len(gainCalls) <= MaxGainCalls

====
